---------------------------- MODULE Spec2Model ----------------------------
(***************************************************************************)
(* A model of oemof_b3/tools/data_processing.py: the filter, aggregation   *)
(* and unstacking operations on scalar and stacked time series tables.     *)
(*                                                                         *)
(* A DataFrame is a record [cols, rows]: cols is the ordered list of       *)
(* column names, rows the list of rows, each row a record with one field   *)
(* per column.  The row index is the default RangeIndex, so the label      *)
(* df[col][index] is the position in rows.                                 *)
(*                                                                         *)
(* Python strings that the code searches, splits or concatenates           *)
(* (var_name, carrier) are sequences of one-character strings, so that     *)
(* "x in s", s.split("_") and a + b are computed and not tabulated.        *)
(* Strings that are only compared or copied are TLA+ strings.              *)
(*                                                                         *)
(* A called operation either returns a table or raises: out.status is      *)
(* "ok" or the name of the raise site.                                     *)
(*                                                                         *)
(* Missing cells (None, NaN / NaT) are modelled for the three time fields  *)
(* that unstack_timeseries checks; the scenario, region, carrier and tech  *)
(* cells of the tables considered here always hold values.                 *)
(***************************************************************************)
EXTENDS Integers, Sequences, FiniteSets, TLC

VARIABLES
    df,      \* the DataFrame passed to the operation
    key,     \* the key argument of df_filtered / df_agg
    values,  \* the values argument of df_filtered
    pc,      \* "call" before the operation has run, its name after
    out      \* what the operation returned or raised

vars == <<df, key, values, pc, out>>

--------------------------------------------------------------------------
(* Bounds of the checked inputs *)

MaxRows == 2

--------------------------------------------------------------------------
(* Python str operations on sequences of characters *)

\* s[i:i+len(sub)] == sub
MatchAt(sub, s, i) ==
    \A j \in 1..Len(sub) : s[i + j - 1] = sub[j]

\* Python: sub in s, for two strings
StrIn(sub, s) ==
    \E i \in 1..(Len(s) - Len(sub) + 1) : MatchAt(sub, s, i)

RECURSIVE SplitRec(_, _, _, _)
SplitRec(s, i, cur, acc) ==
    IF i > Len(s) THEN Append(acc, cur)
    ELSE IF s[i] = "_" THEN SplitRec(s, i + 1, <<>>, Append(acc, cur))
    ELSE SplitRec(s, i + 1, Append(cur, s[i]), acc)

\* Python: s.split("_")
Split(s) == SplitRec(s, 1, <<>>, <<>>)

\* Python: x in list
InList(x, l) == \E i \in 1..Len(l) : l[i] = x

RECURSIVE FromKeysRec(_, _, _)
FromKeysRec(l, i, acc) ==
    IF i > Len(l) THEN acc
    ELSE FromKeysRec(l, i + 1, IF InList(l[i], acc) THEN acc ELSE Append(acc, l[i]))

\* Python: list(dict.fromkeys(l)), the distinct items in order of first appearance
FromKeys(l) == FromKeysRec(l, 1, <<>>)

\* The literals the aggregation searches var_name for
str_capacity == <<"c", "a", "p", "a", "c", "i", "t", "y">>
str_flow == <<"f", "l", "o", "w">>
str_costs == <<"c", "o", "s", "t", "s">>
str_invest == <<"i", "n", "v", "e", "s", "t">>
str_losses == <<"l", "o", "s", "s", "e", "s">>
str_in == <<"i", "n">>
str_out == <<"o", "u", "t">>
str_flow_ == <<"f", "l", "o", "w", "_">>
str_us == <<"_">>

\* "All" in the carrier column, whose cells the code concatenates
str_All == <<"A", "l", "l">>

--------------------------------------------------------------------------
(* get_optional_required_header *)

header_scalars ==
    <<"id_scal", "scenario", "name", "var_name", "carrier", "region",
      "tech", "type", "var_value", "var_unit", "reference", "comment">>

optional_header_scalars == <<"id_scal", "var_unit", "reference", "comment">>

header_timeseries ==
    <<"id_ts", "region", "var_name", "timeindex_start", "timeindex_stop",
      "timeindex_resolution", "series", "var_unit", "source", "comment">>

optional_header_timeseries == <<"id_ts", "var_unit", "source", "comment">>

\* Python: l.remove(x), the first occurrence; x is in l where the code calls it
ListRemove(l, x) ==
    LET i == CHOOSE k \in 1..Len(l) : l[k] = x /\ \A m \in 1..(k - 1) : l[m] # x
    IN  SubSeq(l, 1, i - 1) \o SubSeq(l, i + 1, Len(l))

RECURSIVE RemoveAll(_, _, _)
RemoveAll(l, opt, i) ==
    IF i > Len(opt) THEN l ELSE RemoveAll(ListRemove(l, opt[i]), opt, i + 1)

\* required_header = header.copy(); for optional in optional_header: remove
required_header_scalars == RemoveAll(header_scalars, optional_header_scalars, 1)

required_header_timeseries ==
    RemoveAll(header_timeseries, optional_header_timeseries, 1)

Range(l) == {l[i] : i \in 1..Len(l)}

\* Python's None in a cell
None == "None"


--------------------------------------------------------------------------
(* Results of an operation *)

EmptyTable == [cols |-> <<>>, rows |-> <<>>]

NoResult ==
    [status |-> "none", table |-> EmptyTable, notices |-> <<>>,
     var_name |-> <<>>, field |-> ""]

\* the operation returned table t after printing the notices
Returned(t, notices) ==
    [status |-> "ok", table |-> t, notices |-> notices,
     var_name |-> <<>>, field |-> ""]

\* the operation raised at the raise site named status
Raised(status) ==
    [status |-> status, table |-> EmptyTable, notices |-> <<>>,
     var_name |-> <<>>, field |-> ""]

\* raised, the message naming a var_name
RaisedVar(status, vn) == [Raised(status) EXCEPT !.var_name = vn]

\* raised, the message naming a time field
RaisedField(status, name) == [Raised(status) EXCEPT !.field = name]

--------------------------------------------------------------------------
(* The header check that df_filtered and df_agg share *)

RECURSIVE HeaderRequiredRec(_, _, _)
HeaderRequiredRec(req, df_header, i) ==
    IF i > Len(df_header) THEN req
    ELSE IF InList(df_header[i], optional_header_scalars)
              \/ InList(df_header[i], optional_header_timeseries)
         THEN HeaderRequiredRec(ListRemove(req, df_header[i]), df_header, i + 1)
         ELSE HeaderRequiredRec(req, df_header, i + 1)

\* df_header_required: the columns of the table without the optional ones
df_header_required(df_header) == HeaderRequiredRec(df_header, df_header, 1)

\* the branch the == comparisons of the two lists select
DataType(df_header) ==
    IF df_header_required(df_header) = required_header_scalars THEN "scalars"
    ELSE IF df_header_required(df_header) = required_header_timeseries
         THEN "timeseries"
         ELSE "neither"

filter_options(data_type) ==
    IF data_type = "scalars"
    THEN <<"scenario", "region", "carrier", "tech", "type", "var_name">>
    ELSE <<"region", "var_name">>

\* agg_options offering the filter options
agg_options_AsFilter(data_type) == filter_options(data_type)

agg_options(data_type) ==
    IF data_type = "scalars" THEN <<"region", "carrier", "tech">>
    ELSE <<"region">>

\* list(df[col])
Column(d, col) == [i \in 1..Len(d.rows) |-> d.rows[i][col]]

--------------------------------------------------------------------------
(* df_agg on scalars: results_dict is a Python dict, a list of (k, v)     *)
(* entries in insertion order                                              *)

DictHas(d, k) == \E i \in 1..Len(d) : d[i].k = k

\* d[k] = d[k] + x, for a key that d has
DictAdd(d, k, x) ==
    [i \in 1..Len(d) |-> IF d[i].k = k THEN [d[i] EXCEPT !.v = @ + x] ELSE d[i]]

\* if k not in d.keys(): d[k] = 0
DictInit(d, k) == IF DictHas(d, k) THEN d ELSE Append(d, [k |-> k, v |-> 0])

\* if "in" in var_name: add the value; elif "out" in var_name: subtract it
AddInOut(d, k, var_name, var_value) ==
    IF StrIn(str_in, var_name) THEN DictAdd(d, k, var_value)
    ELSE IF StrIn(str_out, var_name) THEN DictAdd(d, k, 0 - var_value)
    ELSE d

\* the key of a flow in results_dict
FlowKey(agg_key, energy_carrier, carrier) ==
    IF agg_key # "carrier" /\ agg_key # "tech"
    THEN str_flow_ \o energy_carrier
    ELSE str_flow_ \o energy_carrier \o str_us \o carrier

\* One matching row of the loop over df.iterrows(): the updated
\* results_dict, or the error the row raises.
AggRow(d, row, agg_key) ==
    LET var_name == row.var_name
        var_value == row.var_value
    IN  IF StrIn(str_capacity, var_name)
        THEN [err |-> "none",
              dict |-> DictAdd(DictInit(d, str_capacity), str_capacity, var_value)]
        ELSE IF StrIn(str_flow, var_name)
        THEN IF Len(Split(var_name)) < 3
             THEN [err |-> "IndexError", dict |-> d]
             ELSE LET k == FlowKey(agg_key, Split(var_name)[3], row.carrier)
                  IN  [err |-> "none",
                       dict |-> AddInOut(DictInit(d, k), k, var_name, var_value)]
        ELSE IF StrIn(str_costs, var_name)
        THEN [err |-> "none",
              dict |-> AddInOut(DictInit(d, str_costs), str_costs, var_name, var_value)]
        ELSE IF StrIn(str_invest, var_name)
        THEN [err |-> "none",
              dict |-> AddInOut(DictInit(d, str_invest), str_invest, var_name, var_value)]
        ELSE IF StrIn(str_losses, var_name)
        THEN [err |-> "none",
              dict |-> DictAdd(DictInit(d, str_losses), str_losses, var_value)]
        ELSE [err |-> "UnknownVariable", dict |-> d]

\* The loop over the rows for one scenario and one key_item, from row i on.
RECURSIVE AggGroup(_, _, _, _, _, _)
AggGroup(d, t, agg_key, scenario, key_item, i) ==
    IF i > Len(t.rows) THEN [err |-> "none", dict |-> d, var_name |-> <<>>]
    ELSE IF t.rows[i].scenario = scenario /\ t.rows[i][agg_key] = key_item
    THEN LET r == AggRow(d, t.rows[i], agg_key)
         IN  IF r.err # "none"
             THEN [err |-> r.err, dict |-> d, var_name |-> t.rows[i].var_name]
             ELSE AggGroup(r.dict, t, agg_key, scenario, key_item, i + 1)
    ELSE AggGroup(d, t, agg_key, scenario, key_item, i + 1)

\* NewRowScalars with the key item written to the region column whatever the key
NewRowScalars_KeyInRegion(agg_key, scenario, key_item, entry) ==
    [id_scal |-> None,
     scenario |-> scenario,
     name |-> "Aggregated by " \o agg_key,
     var_name |-> entry.k,
     carrier |-> str_All,
     region |-> key_item,
     tech |-> "All",
     type |-> "All",
     var_value |-> entry.v,
     var_unit |-> "-",
     reference |-> None,
     comment |-> None]

\* new_row for one entry of results_dict
NewRowScalars(agg_key, scenario, key_item, entry) ==
    [id_scal |-> None,
     scenario |-> scenario,
     name |-> "Aggregated by " \o agg_key,
     var_name |-> entry.k,
     carrier |-> IF agg_key = "carrier" THEN key_item ELSE str_All,
     region |-> IF agg_key = "region" THEN key_item ELSE "All",
     tech |-> IF agg_key = "tech" THEN key_item ELSE "All",
     type |-> "All",
     var_value |-> entry.v,
     var_unit |-> "-",
     reference |-> None,
     comment |-> None]

\* the rows appended for one results_dict
NewRowsScalars(agg_key, scenario, key_item, d) ==
    [i \in 1..Len(d) |-> NewRowScalars(agg_key, scenario, key_item, d[i])]

\* The loops over scenario_list and key_list from the pair (si, ki) on;
\* rows are the rows appended to df_agg_by_key so far.
RECURSIVE AggScalars(_, _, _, _, _, _, _)
AggScalars(t, agg_key, scenario_list, key_list, si, ki, rows) ==
    IF si > Len(scenario_list) THEN [err |-> "none", rows |-> rows, var_name |-> <<>>]
    ELSE IF ki > Len(key_list)
    THEN AggScalars(t, agg_key, scenario_list, key_list, si + 1, 1, rows)
    ELSE LET g == AggGroup(<<>>, t, agg_key, scenario_list[si], key_list[ki], 1)
         IN  IF g.err # "none"
             THEN [err |-> g.err, rows |-> <<>>, var_name |-> g.var_name]
             ELSE AggScalars(t, agg_key, scenario_list, key_list, si, ki + 1,
                             rows \o NewRowsScalars(agg_key, scenario_list[si],
                                                    key_list[ki], g.dict))

\* DataFrame.append(new_row): the columns of the frame, then the keys of
\* new_row the frame does not have
AppendedCols(cols, new_keys) ==
    cols \o SelectSeq(new_keys, LAMBDA c : ~InList(c, cols))

--------------------------------------------------------------------------
(* df_agg on stacked time series *)

\* np.add(a, b) on two one-dimensional sequences: element-wise, a sequence
\* of length 1 is broadcast, any other pair of lengths raises
NpAddOk(a, b) == Len(a) = Len(b) \/ Len(a) = 1 \/ Len(b) = 1

\* NpAdd keeping the second operand instead of adding
NpAdd_KeepsLast(a, b) == b

NpAdd(a, b) ==
    IF Len(a) = Len(b) THEN [i \in 1..Len(a) |-> a[i] + b[i]]
    ELSE IF Len(a) = 1 THEN [i \in 1..Len(b) |-> a[1] + b[i]]
    ELSE [i \in 1..Len(a) |-> a[i] + b[1]]

\* [0] * n
Zeros(n) == [i \in 1..n |-> 0]

\* The loop over the rows for one key_item, from row i on; d is
\* results_dict: has says whether "series" is a key of it.
RECURSIVE AggSeries(_, _, _, _, _)
AggSeries(d, t, agg_key, key_item, i) ==
    IF i > Len(t.rows) THEN d
    ELSE IF t.rows[i][agg_key] = key_item
    THEN LET a == IF d.has THEN d.series ELSE Zeros(Len(t.rows[1].series))
         IN  IF ~NpAddOk(a, t.rows[i].series)
             THEN [d EXCEPT !.err = "BroadcastError"]
             ELSE AggSeries([has |-> TRUE, err |-> "none",
                             series |-> NpAdd(a, t.rows[i].series)],
                            t, agg_key, key_item, i + 1)
    ELSE AggSeries(d, t, agg_key, key_item, i + 1)

\* new_row for one key_item
NewRowTimeseries(t, agg_key, key_item, series) ==
    [id_ts |-> None,
     region |-> key_item,
     var_name |-> "Aggregated by " \o agg_key,
     timeindex_start |-> t.rows[1].timeindex_start,
     timeindex_stop |-> t.rows[1].timeindex_stop,
     timeindex_resolution |-> t.rows[1].timeindex_resolution,
     series |-> series,
     var_unit |-> "-",
     source |-> None,
     comment |-> None]

\* The loop over key_list from item ki on.
RECURSIVE AggTimeseries(_, _, _, _, _)
AggTimeseries(t, agg_key, key_list, ki, rows) ==
    IF ki > Len(key_list) THEN [err |-> "none", rows |-> rows]
    ELSE LET d == AggSeries([has |-> FALSE, err |-> "none", series |-> <<>>],
                            t, agg_key, key_list[ki], 1)
         IN  IF d.err # "none" THEN [err |-> d.err, rows |-> <<>>]
             ELSE IF ~d.has THEN [err |-> "KeyError", rows |-> <<>>]
             ELSE AggTimeseries(t, agg_key, key_list, ki + 1,
                                Append(rows, NewRowTimeseries(t, agg_key,
                                                              key_list[ki], d.series)))

--------------------------------------------------------------------------
(* df_agg *)

df_agg(t, agg_key) ==
    LET data_type == DataType(t.cols)
    IN  IF data_type = "neither" THEN Raised("UnrecognizedSchema")
        ELSE IF ~InList(agg_key, agg_options(data_type))
        THEN Raised("InvalidAggregationKey")
        ELSE IF ~InList(agg_key, t.cols) THEN Raised("MissingColumn")
        ELSE LET key_list == FromKeys(Column(t, agg_key))
             IN  IF data_type = "scalars"
                 THEN LET r == AggScalars(t, agg_key,
                                          FromKeys(Column(t, "scenario")),
                                          key_list, 1, 1, <<>>)
                      IN  IF r.err # "none" THEN RaisedVar(r.err, r.var_name)
                          ELSE Returned(
                                 [cols |-> IF r.rows = <<>> THEN t.cols
                                           ELSE AppendedCols(t.cols, header_scalars),
                                  rows |-> r.rows], <<>>)
                 ELSE LET r == AggTimeseries(t, agg_key, key_list, 1, <<>>)
                      IN  IF r.err # "none" THEN Raised(r.err)
                          ELSE Returned(
                                 [cols |-> IF r.rows = <<>> THEN t.cols
                                           ELSE AppendedCols(t.cols, header_timeseries),
                                  rows |-> r.rows], <<>>)

--------------------------------------------------------------------------
(* df_filtered *)

\* MatchingRows appending every row of the table
MatchingRows_All(t, filter_key, value) == t.rows

\* the rows appended for one value: for index, row in df.iterrows():
\* if value == df[key][index]
MatchingRows(t, filter_key, value) ==
    SelectSeq(t.rows, LAMBDA row : row[filter_key] = value)

\* The loop over values from item vi on: the rows appended and the
\* values reported as not found so far.
RECURSIVE FilterValues(_, _, _, _, _, _)
FilterValues(t, filter_key, vals, vi, rows, notices) ==
    IF vi > Len(vals) THEN [rows |-> rows, notices |-> notices]
    ELSE IF ~InList(vals[vi], Column(t, filter_key))
    THEN FilterValues(t, filter_key, vals, vi + 1, rows, Append(notices, vals[vi]))
    ELSE FilterValues(t, filter_key, vals, vi + 1,
                      rows \o MatchingRows(t, filter_key, vals[vi]), notices)

df_filtered(t, filter_key, vals) ==
    LET data_type == DataType(t.cols)
    IN  IF data_type = "neither" THEN Raised("UnrecognizedSchema")
        ELSE IF ~InList(filter_key, filter_options(data_type))
        THEN Raised("InvalidFilterKey")
        ELSE IF ~InList(filter_key, t.cols) THEN Raised("MissingColumn")
        ELSE LET r == FilterValues(t, filter_key, vals, 1, <<>>, <<>>)
             IN  Returned([cols |-> t.cols, rows |-> r.rows], r.notices)

--------------------------------------------------------------------------
(* Cells of the time fields: a value, None, or NaN / NaT *)

Cell(x) == [v |-> x]
NoneCell == [na |-> "None"]
NaNCell == [na |-> "NaN"]

\* Python / numpy ==: NaN and NaT equal nothing, None equals None
PyEq(a, b) == a = b /\ a # NaNCell

--------------------------------------------------------------------------
(* check_consistency_timeindex and unstack_timeseries *)

\* name, as the message gives it
FieldName(index) ==
    IF index = "timeindex_start" THEN "start date"
    ELSE IF index = "timeindex_stop" THEN "end date"
    ELSE "frequency"

\* [err, value]: the single value of column index, or the error raised.
\* df[index] of a lacking column is pandas' KeyError, array[0] of an
\* empty column an IndexError.
check_consistency_timeindex(t, index) ==
    IF ~InList(index, t.cols) THEN [err |-> "KeyError", value |-> NoneCell]
    ELSE IF Len(t.rows) = 0 THEN [err |-> "IndexError", value |-> NoneCell]
    ELSE IF \A i \in 1..Len(t.rows) : PyEq(t.rows[i][index], t.rows[1][index])
    THEN IF t.rows[1][index] = NoneCell
         THEN [err |-> "MissingTimeField", value |-> NoneCell]
         ELSE [err |-> "none", value |-> t.rows[1][index]]
    ELSE [err |-> "InconsistentTimeIndex", value |-> NoneCell]

\* the hours of one step of a frequency alias
FreqHours(freq) ==
    IF freq \in {"H", "1H"} THEN 1 ELSE IF freq = "3H" THEN 3 ELSE 2

\* index.freqstr of an index made with freq: the alias of the offset, which
\* leaves out a multiple of one ("1H" is Hour(1), its freqstr is "H")
freqstr(freq) == IF freq = "1H" THEN "H" ELSE freq

\* date_range leaving out the last timestamp
date_range_OpenEnd(start, stop, freq) ==
    IF stop <= start THEN <<>>
    ELSE [i \in 1..((stop - start - 1) \div FreqHours(freq) + 1) |->
             start + (i - 1) * FreqHours(freq)]

\* pd.date_range(start, stop, freq=freq): start, start + step, ... up to stop
date_range(start, stop, freq) ==
    IF stop < start THEN <<>>
    ELSE [i \in 1..((stop - start) \div FreqHours(freq) + 1) |->
             start + (i - 1) * FreqHours(freq)]

\* the notices for the columns lost by unstacking
LostColumns(t) ==
    SelectSeq(<<"source", "comment">>, LAMBDA col : InList(col, t.cols))

\* df_unstacked: a wide table [cols, kind, index, freq, rows] with the
\* columns, the kind of index, its timestamps (in hours), its freqstr and
\* the values, one sequence per index entry.  np.array of series of
\* unequal lengths and pd.DataFrame of values that do not fit the index
\* raise a ValueError, the status "ShapeError".
unstack_timeseries(t) ==
    LET frequency == check_consistency_timeindex(t, "timeindex_resolution")
        timeindex_start == check_consistency_timeindex(t, "timeindex_start")
        timeindex_stop == check_consistency_timeindex(t, "timeindex_stop")
    IN  IF frequency.err # "none"
        THEN RaisedField(frequency.err, FieldName("timeindex_resolution"))
        ELSE IF timeindex_start.err # "none"
        THEN RaisedField(timeindex_start.err, FieldName("timeindex_start"))
        ELSE IF timeindex_stop.err # "none"
        THEN RaisedField(timeindex_stop.err, FieldName("timeindex_stop"))
        ELSE LET index == date_range(timeindex_start.value.v,
                                     timeindex_stop.value.v, frequency.value.v)
             IN  IF \E i \in 1..Len(t.rows) : Len(t.rows[i].series) # Len(index)
                 THEN Raised("ShapeError")
                 ELSE Returned(
                        [cols |-> Column(t, "var_name"),
                         kind |-> "DatetimeIndex",
                         index |-> index,
                         freq |-> freqstr(frequency.value.v),
                         rows |-> [p \in 1..Len(index) |->
                                      [i \in 1..Len(t.rows) |-> t.rows[i].series[p]]]],
                        LostColumns(t))

--------------------------------------------------------------------------
(* stack_timeseries *)

\* the alias pd.infer_freq gives for a step of so many hours
FreqAlias(step) == IF step = 1 THEN "H" ELSE ToString(step) \o "H"

\* pd.infer_freq(index) of ascending timestamps: "ValueError" for fewer
\* than three timestamps, None if the steps differ, else the alias
infer_freq(index) ==
    IF Len(index) < 3 THEN "ValueError"
    ELSE IF \A i \in 2..Len(index) : index[i] - index[i - 1] = index[2] - index[1]
    THEN FreqAlias(index[2] - index[1])
    ELSE None

\* _df.asfreq(freq) of an index of that frequency: the same rows, freq set
asfreq(w, freq) == [w EXCEPT !.freq = freq]

\* the positions of the columns named column
ColumnsNamed(w, column) ==
    SelectSeq([k \in 1..Len(w.cols) |-> k], LAMBDA k : w.cols[k] = column)

\* list(_df[column].values): per index entry the values of the columns
\* named column.  An entry is written as the sequence of these values, so
\* the value x of a column whose name occurs once is <<x>>.
ColumnValues(w, column) ==
    LET same == ColumnsNamed(w, column)
    IN  [p \in 1..Len(w.index) |-> [m \in 1..Len(same) |-> w.rows[p][same[m]]]]

df_stacked_cols ==
    <<"var_name", "timeindex_start", "timeindex_stop", "timeindex_resolution",
      "series">>

stack_timeseries(w) ==
    IF w.kind # "DatetimeIndex" THEN Raised("NotTimeIndexed")
    ELSE IF infer_freq(w.index) = "ValueError" THEN Raised("ValueError")
    ELSE IF infer_freq(w.index) = None THEN Raised("NoFixedFrequency")
    ELSE LET _df == IF w.freq = None THEN asfreq(w, infer_freq(w.index)) ELSE w
             notices == IF w.freq = None THEN <<infer_freq(w.index)>> ELSE <<>>
         IN  Returned(
               [cols |-> df_stacked_cols,
                rows |-> [j \in 1..Len(w.cols) |->
                    [var_name |-> w.cols[j],
                     timeindex_start |-> Cell(_df.index[1]),
                     timeindex_stop |-> Cell(_df.index[Len(_df.index)]),
                     timeindex_resolution |-> Cell(_df.freq),
                     series |-> ColumnValues(_df, w.cols[j])]]],
               notices)

--------------------------------------------------------------------------
(* load_scalars and load_timeseries, from the DataFrame pd.read_csv gives *)

\* np.nan, the value of an empty cell
NaN == "NaN"

\* raised, the message listing columns
RaisedColumns(status, columns) == [Raised(status) EXCEPT !.field = columns]

\* np.arange(0, n)
arange(n) == [i \in 1..n |-> i - 1]

\* df[col] = column: a new last column, or new values of the column col
SetColumn(t, col, column) ==
    [cols |-> IF InList(col, t.cols) THEN t.cols ELSE Append(t.cols, col),
     rows |-> [i \in 1..Len(t.rows) |->
                  [c \in DOMAIN t.rows[i] \cup {col} |->
                      IF c = col THEN column[i] ELSE t.rows[i][c]]]]

\* df[header] keeping the order of the columns of df
Reindex_KeepsOrder(t, header) ==
    IF \E i \in 1..Len(header) : ~InList(header[i], t.cols)
    THEN [err |-> "KeyError", table |-> EmptyTable]
    ELSE [err |-> "none",
          table |-> [cols |-> SelectSeq(t.cols, LAMBDA c : InList(c, header)),
                     rows |-> [i \in 1..Len(t.rows) |->
                                  [c \in Range(header) |-> t.rows[i][c]]]]]

\* df[header]: the columns of header in its order; pandas' KeyError if df
\* lacks one of them
Reindex(t, header) ==
    IF \E i \in 1..Len(header) : ~InList(header[i], t.cols)
    THEN [err |-> "KeyError", table |-> EmptyTable]
    ELSE [err |-> "none",
          table |-> [cols |-> header,
                     rows |-> [i \in 1..Len(t.rows) |->
                                  [c \in Range(header) |-> t.rows[i][c]]]]]

RECURSIVE FillOptionalScalars(_, _, _, _)
\* for optional in optional_header, from position i on: [table, notices]
FillOptionalScalars(t, df_header, i, notices) ==
    IF i > Len(optional_header_scalars) THEN [table |-> t, notices |-> notices]
    ELSE LET optional == optional_header_scalars[i]
         IN  IF InList(optional, df_header)
             THEN FillOptionalScalars(t, df_header, i + 1, notices)
             ELSE IF i = 1
             THEN FillOptionalScalars(SetColumn(t, optional, arange(Len(t.rows))),
                                      df_header, i + 1, notices)
             ELSE FillOptionalScalars(
                      SetColumn(t, optional, [k \in 1..Len(t.rows) |-> NaN]),
                      df_header, i + 1, Append(notices, optional))

\* load_scalars(path), t the DataFrame read from path
load_scalars(t) ==
    LET df_header == t.cols
        missing_required == Range(required_header_scalars) \ Range(df_header)
    IN  IF missing_required # {}
        THEN RaisedColumns("MissingRequiredColumns", missing_required)
        ELSE LET filled == FillOptionalScalars(t, df_header, 1, <<>>)
                 sorted == Reindex(filled.table, header_scalars)
             IN  IF sorted.err # "none" THEN Raised(sorted.err)
                 ELSE Returned(sorted.table, filled.notices)

\* a cell as text in the file: a timestamp, a literal of a list
FileCell(x) == [str |-> x]

\* pd.to_datetime of a column of timestamps as text
to_datetime(cell) == Cell(cell.str)

\* ast.literal_eval of the literal of a list
literal_eval(cell) == cell.str

str_BE == <<"B", "E">>
str_BB == <<"B", "B">>

\* the region extracted out of var_name, "" where the code raises
RegionOf(var_name) ==
    IF StrIn(str_BE, var_name) /\ StrIn(str_BB, var_name) THEN "BE_BB"
    ELSE IF StrIn(str_BE, var_name) THEN "BE"
    ELSE IF StrIn(str_BB, var_name) THEN "BB"
    ELSE ""

required_header_without_reg == ListRemove(required_header_timeseries, "region")

\* "if optional columns are missing in the stacked DataFrame": the columns
\* are the required ones, with or without region, in the header's order
MissingOptional(cols) ==
    /\ (cols = required_header_timeseries \/ cols = required_header_without_reg)
    /\ cols # header_timeseries

RECURSIVE FillOptionalTimeseries(_, _)
\* for num_col in np.arange(1, len(optional_header)), from num_col = i - 1 on
FillOptionalTimeseries(t, i) ==
    IF i > Len(optional_header_timeseries) THEN t
    ELSE IF InList(optional_header_timeseries[i], t.cols)
    THEN FillOptionalTimeseries(t, i + 1)
    ELSE FillOptionalTimeseries(
             SetColumn(t, optional_header_timeseries[i],
                       [k \in 1..Len(t.rows) |-> NaN]), i + 1)

\* lines 252-296 on the stacked DataFrame t
CompleteTimeseries(t, notices) ==
    LET withId == IF ~InList("id_ts", t.cols)
                  THEN SetColumn(t, "id_ts", arange(Len(t.rows))) ELSE t
        region == [row \in 1..Len(t.rows) |-> RegionOf(t.rows[row].var_name)]
        withRegion == IF ~InList("region", t.cols)
                      THEN SetColumn(withId, "region", region) ELSE withId
        completed == IF MissingOptional(t.cols)
                     THEN FillOptionalTimeseries(withRegion, 2) ELSE t
        sorted == Reindex(completed, header_timeseries)
    IN  IF /\ MissingOptional(t.cols)
           /\ ~InList("region", t.cols)
           /\ \E row \in 1..Len(t.rows) : region[row] = ""
        THEN Raised("MissingRegion")
        ELSE IF sorted.err # "none" THEN Raised(sorted.err)
        ELSE Returned(sorted.table, notices)

\* a wide file: the DataFrame with its first column as DatetimeIndex
IsWide(t) == "kind" \in DOMAIN t

\* the stacked DataFrame with timestamps and series converted
Converted(t) ==
    [cols |-> t.cols,
     rows |-> [i \in 1..Len(t.rows) |->
        [c \in DOMAIN t.rows[i] |->
            IF c \in {"timeindex_start", "timeindex_stop"} THEN to_datetime(t.rows[i][c])
            ELSE IF c = "series" THEN literal_eval(t.rows[i][c])
            ELSE t.rows[i][c]]]]

\* load_timeseries(path), t the DataFrame read from path: a wide file has
\* no column of the required header and is stacked first; every stacked
\* file considered has one.  Files in the format of the results (a column
\* "from") are not considered.
load_timeseries(t) ==
    IF IsWide(t)
    THEN LET df_stacked == stack_timeseries(t)
         IN  IF df_stacked.status # "ok" THEN df_stacked
             ELSE CompleteTimeseries(df_stacked.table, df_stacked.notices)
    ELSE LET missing_required ==
                 SelectSeq(required_header_timeseries,
                           LAMBDA required : ~InList(required, t.cols)
                                             /\ required # "region")
         IN  IF Len(missing_required) > 0
             THEN RaisedColumns("MissingRequiredColumns", missing_required)
             ELSE CompleteTimeseries(Converted(t), <<>>)

--------------------------------------------------------------------------
(* The scalar tables the aggregation is checked on *)

vn_capacity == <<"c", "a", "p", "a", "c", "i", "t", "y">>
vn_flow_in_electricity == <<"f", "l", "o", "w", "_", "i", "n", "_", "e", "l", "e", "c", "t", "r", "i", "c", "i", "t", "y">>
vn_flow_out_electricity == <<"f", "l", "o", "w", "_", "o", "u", "t", "_", "e", "l", "e", "c", "t", "r", "i", "c", "i", "t", "y">>
vn_costs_in_fuel == <<"c", "o", "s", "t", "s", "_", "i", "n", "_", "f", "u", "e", "l">>
vn_foobar_in == <<"f", "o", "o", "b", "a", "r", "_", "i", "n">>

car_wind == <<"w", "i", "n", "d">>
car_gas == <<"g", "a", "s">>

Scenarios == {"s1", "s2"}

\* (region, carrier, tech) of the components: every pair of the three
\* columns takes all four combinations of its values
Components ==
    {<<"BB", car_wind, "pp">>, <<"BB", car_gas, "st">>,
     <<"BE", car_wind, "st">>, <<"BE", car_gas, "pp">>}

ScalarRow(scenario, comp, var_name, var_value) ==
    [id_scal |-> 0,
     scenario |-> scenario,
     name |-> "n",
     var_name |-> var_name,
     carrier |-> comp[2],
     region |-> comp[1],
     tech |-> comp[3],
     type |-> "t",
     var_value |-> var_value,
     var_unit |-> "MW",
     reference |-> None,
     comment |-> None]

\* the rows with a var_name of names and a var_value of vals
ScalarRows(names, vals) ==
    {ScalarRow(s, c, n, v) : s \in Scenarios, c \in Components,
                             n \in names, v \in vals}

\* the tables of at most MaxRows rows drawn from rowset, with columns cols
Tables(cols, rowset) ==
    {[cols |-> cols, rows |-> r] : r \in UNION {[1..n -> rowset] : n \in 0..MaxRows}}

\* var_names of every category, an unrecognized one, and a flow without
\* an energy carrier segment
MixedNames ==
    {vn_capacity,
     vn_flow_in_electricity,
     vn_flow_out_electricity,
     <<"f", "l", "o", "w", "_", "i", "n">>,
     vn_foobar_in}

\* flows in and out of two energy carriers
FlowNames ==
    {vn_flow_in_electricity,
     vn_flow_out_electricity,
     <<"f", "l", "o", "w", "_", "i", "n", "_", "h", "e", "a", "t", "i", "n", "g">>,
     <<"f", "l", "o", "w", "_", "o", "u", "t", "_", "h", "e", "a", "t", "i", "n", "g">>}


\* costs and flows with and without a direction
DirectionNames ==
    {vn_capacity,
     vn_costs_in_fuel,
     <<"c", "o", "s", "t", "s", "_", "f", "u", "e", "l">>,
     vn_flow_in_electricity,
     <<"f", "l", "o", "w", "_", "n", "e", "t", "_", "g", "a", "s">>}

\* the categories that are not flows, in both directions
CostNames ==
    {vn_capacity,
     <<"l", "o", "s", "s", "e", "s">>,
     vn_costs_in_fuel,
     <<"c", "o", "s", "t", "s", "_", "o", "u", "t", "_", "f", "u", "e", "l">>,
     <<"i", "n", "v", "e", "s", "t", "_", "i", "n", "_", "e", "l", "e", "c", "t", "r", "i", "c", "i", "t", "y">>,
     <<"i", "n", "v", "e", "s", "t", "_", "o", "u", "t", "_", "e", "l", "e", "c", "t", "r", "i", "c", "i", "t", "y">>}

--------------------------------------------------------------------------
(* The stacked time series tables the operations are checked on *)

MaxSeriesLen == 2

vn_BB_pv == <<"B", "B", "-", "p", "v">>

\* the series of at most MaxSeriesLen entries
AllSeries == UNION {[1..n -> {1, 2}] : n \in 1..MaxSeriesLen}

TsRow(region, var_name, time, series) ==
    [id_ts |-> 0,
     region |-> region,
     var_name |-> var_name,
     timeindex_start |-> time[1],
     timeindex_stop |-> time[2],
     timeindex_resolution |-> time[3],
     series |-> series,
     var_unit |-> "MW",
     source |-> None,
     comment |-> None]

\* (timeindex_start, timeindex_stop, timeindex_resolution), timestamps in
\* hours: two time ranges that differ in all three
TimeRanges ==
    {<<Cell(0), Cell(1), Cell("H")>>, <<Cell(1), Cell(3), Cell("2H")>>}

TsRows ==
    {TsRow(r, vn_BB_pv, t, x) : r \in {"BB", "BE"}, t \in TimeRanges, x \in AllSeries}

\* the time fields with values that differ and with missing values
TimeCells ==
    {<<b, e, f>> : b \in {Cell(0), Cell(1), NoneCell, NaNCell},
                   e \in {Cell(1), Cell(2), NoneCell, NaNCell},
                   f \in {Cell("H"), Cell("2H"), NoneCell, NaNCell}}

UnstackRows ==
    {TsRow("BB", vn_BB_pv, t, x) : t \in TimeCells, x \in {<<1>>, <<1, 2>>}}

\* the row without the fields that are no column of cols
Restrict(row, cols) == [c \in Range(cols) |-> row[c]]

TimeFields == {"timeindex_start", "timeindex_stop", "timeindex_resolution"}

\* the full header, and the header lacking one of the time fields
UnstackHeaders ==
    {header_timeseries}
        \cup {SelectSeq(header_timeseries, LAMBDA c : c # f) : f \in TimeFields}

UnstackTables ==
    {[cols |-> h, rows |-> [i \in 1..Len(t.rows) |-> Restrict(t.rows[i], h)]] :
        h \in UnstackHeaders, t \in Tables(header_timeseries, UnstackRows)}

--------------------------------------------------------------------------
(* The stacked tables unstacking and stacking again are checked on: all    *)
(* rows share the time fields *)

MaxSteps == 3

vn_BE_wind == <<"B", "E", "-", "w", "i", "n", "d">>

\* the series a + 1, ..., a + n
SeriesFrom(a, n) == [p \in 1..n |-> a + p]

RtSeries == {SeriesFrom(a, n) : a \in {0, 10}, n \in 1..MaxSteps}

\* start at hour 0, a stop on and off the steps of the frequency
RtTimes ==
    {<<Cell(0), Cell(e), Cell(f)>> :
        e \in 0..(2 * MaxSteps - 1), f \in {"H", "1H", "2H"}}

RtRows(time) ==
    {TsRow("BB", vn, time, x) : vn \in {vn_BB_pv, vn_BE_wind}, x \in RtSeries}

RtTables == UNION {Tables(header_timeseries, RtRows(time)) : time \in RtTimes}

--------------------------------------------------------------------------
(* The wide tables stacking is checked on *)

\* the ascending sequences of up to MaxSteps timestamps
Ascending ==
    UNION {{x \in [1..n -> 0..(2 * MaxSteps - 2)] :
               \A i \in 1..(n - 1) : x[i] < x[i + 1]} : n \in 0..MaxSteps}

\* the columns: up to MaxRows names, the same name twice included
WideCols == UNION {[1..n -> {vn_BB_pv, vn_BE_wind}] : n \in 0..MaxRows}

\* the value of column k at index entry p
WideValue(p, k) == 10 * k + p

\* the freq an index may carry: unset, or the alias of its steps
IndexFreqs(index) ==
    {None} \cup
        IF Len(index) < 2 THEN {"H"}
        ELSE IF \A i \in 2..Len(index) : index[i] - index[i - 1] = index[2] - index[1]
        THEN {FreqAlias(index[2] - index[1])}
        ELSE {}

WideTable(cols, kind, index, freq) ==
    [cols |-> cols, kind |-> kind, index |-> index, freq |-> freq,
     rows |-> [p \in 1..Len(index) |-> [k \in 1..Len(cols) |-> WideValue(p, k)]]]

\* tables with a DatetimeIndex, and with the default RangeIndex 0, 1, ...
WideTables ==
    {WideTable(c, "DatetimeIndex", x, f) :
        <<c, x, f>> \in {y \in WideCols \X Ascending \X {None, "H", "2H", "3H", "4H", "5H", "6H"} :
                            y[3] \in IndexFreqs(y[2])}}
        \cup {WideTable(c, "RangeIndex", [i \in 1..n |-> i - 1], None) :
                 c \in WideCols, n \in 0..MaxSteps}

--------------------------------------------------------------------------
(* The headers the header check is checked on *)

Swap(l, i) == [k \in 1..Len(l) |-> IF k = i THEN l[i + 1]
                                   ELSE IF k = i + 1 THEN l[i] ELSE l[k]]

Drop(l, i) == SubSeq(l, 1, i - 1) \o SubSeq(l, i + 1, Len(l))

BaseHeaders ==
    {header_scalars, required_header_scalars, header_timeseries,
     required_header_timeseries}

\* a column of the other schema, optional columns, and an unknown column
ExtraColumns == {"source", "id_ts", "id_scal", "reference", "foo"}

\* the headers, with two neighbouring columns swapped, with one column
\* lacking, with one column more in front or at the end
Headers ==
    BaseHeaders
        \cup {Swap(h, i) : h \in BaseHeaders, i \in 1..5}
        \cup {Drop(h, i) : h \in BaseHeaders, i \in 1..6}
        \cup {<<c>> \o h : h \in {x \in BaseHeaders : Len(x) < 10}, c \in ExtraColumns}
        \cup {h \o <<c>> : h \in {x \in BaseHeaders : Len(x) < 10}, c \in ExtraColumns}

DefaultCell(col) ==
    CASE col = "id_scal" -> 0
      [] col = "id_ts" -> 0
      [] col = "var_name" -> vn_capacity
      [] col = "carrier" -> car_gas
      [] col = "var_value" -> 1
      [] col = "timeindex_start" -> Cell(0)
      [] col = "timeindex_stop" -> Cell(1)
      [] col = "timeindex_resolution" -> Cell("H")
      [] col = "series" -> <<1, 2>>
      [] col \in {"reference", "comment", "source"} -> None
      [] OTHER -> "BB"

\* a table of one row with the columns cols
OneRowTable(cols) ==
    [cols |-> cols, rows |-> <<[c \in Range(cols) |-> DefaultCell(c)]>>]

--------------------------------------------------------------------------
(* The DataFrames read from scalar files *)

Reverse(l) == [i \in 1..Len(l) |-> l[Len(l) + 1 - i]]

\* the header without the columns of the set drop
Without(header, drop) == SelectSeq(header, LAMBDA c : c \notin drop)

\* a row with the columns cols; a column outside the header holds "x"
RowWith(row, cols) ==
    [c \in Range(cols) |-> IF c \in DOMAIN row THEN row[c] ELSE "x"]

\* the table of the rows with the columns cols
TableWith(rows, cols) ==
    [cols |-> cols, rows |-> [i \in 1..Len(rows) |-> RowWith(rows[i], cols)]]

\* rows that differ in id_scal and var_value
LoadScalarRows ==
    {[ScalarRow("s1", <<"BB", car_gas, "st">>, vn_capacity, v) EXCEPT !.id_scal = 5 + v] :
        v \in {1, 2}}

\* every subset of the optional columns lacking; with that up to two
\* required columns lacking, the reversed order, or one column more
ScalarFileHeaders ==
    LET lackingOptional ==
            {Without(header_scalars, o) : o \in SUBSET Range(optional_header_scalars)}
    IN  lackingOptional
            \cup {Without(h, r) : h \in lackingOptional,
                                  r \in {{"scenario"}, {"var_value"}, {"scenario", "var_value"}}}
            \cup {Reverse(h) : h \in lackingOptional}
            \cup {h \o <<"foo">> : h \in lackingOptional}

ScalarFiles ==
    {TableWith(t.rows, h) :
        t \in Tables(header_scalars, LoadScalarRows), h \in ScalarFileHeaders}

--------------------------------------------------------------------------
(* The DataFrames read from time series files *)


\* a row of a stacked file; the region column, where the file has one,
\* holds "BB" whatever the var_name
TsFileRow(var_name) ==
    [id_ts |-> 7,
     region |-> "BB",
     var_name |-> var_name,
     timeindex_start |-> FileCell(0),
     timeindex_stop |-> FileCell(2),
     timeindex_resolution |-> Cell("H"),
     series |-> FileCell(<<1, 2, 3>>),
     var_unit |-> "MW",
     source |-> "s",
     comment |-> "c"]

\* every subset of the optional columns lacking, with and without region;
\* with that required columns lacking, the reversed order, or one column
\* more
TsFileHeaders ==
    LET lackingOptional ==
            {Without(header_timeseries, o \cup r) :
                o \in SUBSET Range(optional_header_timeseries),
                r \in {{}, {"region"}}}
    IN  lackingOptional
            \cup {Without(h, r) : h \in lackingOptional,
                                  r \in {{"series"}, {"var_name", "series"}}}
            \cup {Reverse(h) : h \in lackingOptional}
            \cup {h \o <<"foo">> : h \in lackingOptional}

\* the stacked files, and the wide files
TsFiles ==
    {TableWith(t.rows, h) :
        t \in Tables(header_timeseries,
                     {TsFileRow(vn) :
                         vn \in {vn_BB_pv, vn_BE_wind, <<"p", "v">>,
                                 <<"B", "E", "-", "B", "B", "-", "l", "i", "n", "e">>}}),
        h \in TsFileHeaders}
        \cup {w \in WideTables : w.kind = "DatetimeIndex" /\ w.freq = None}

--------------------------------------------------------------------------
(* Calls *)

\* df_agg(df, key)
CallDfAgg ==
    /\ pc = "call"
    /\ pc' = "df_agg"
    /\ out' = df_agg(df, key)
    /\ UNCHANGED <<df, key, values>>

AggKeys == {"region", "carrier", "tech"}

\* Scalar aggregation of tables with var_names of every kind
InitAgg ==
    /\ df \in Tables(header_scalars, ScalarRows(MixedNames, {1}))
    /\ key \in AggKeys
    /\ values = <<>>
    /\ pc = "call"
    /\ out = NoResult

SpecAgg == InitAgg /\ [][CallDfAgg]_vars

\* Scalar aggregation of flows
InitAggFlow ==
    /\ df \in Tables(header_scalars, ScalarRows(FlowNames, {1, 2}))
    /\ key \in AggKeys
    /\ values = <<>>
    /\ pc = "call"
    /\ out = NoResult

SpecAggFlow == InitAggFlow /\ [][CallDfAgg]_vars

\* Scalar aggregation of capacity, costs, invest and losses
InitAggCost ==
    /\ df \in Tables(header_scalars, ScalarRows(CostNames, {1, 2}))
    /\ key \in AggKeys
    /\ values = <<>>
    /\ pc = "call"
    /\ out = NoResult

SpecAggCost == InitAggCost /\ [][CallDfAgg]_vars

\* Scalar aggregation of rows with and without a direction
InitAggDirection ==
    /\ df \in Tables(header_scalars, ScalarRows(DirectionNames, {1, 2}))
    /\ key \in AggKeys
    /\ values = <<>>
    /\ pc = "call"
    /\ out = NoResult

SpecAggDirection == InitAggDirection /\ [][CallDfAgg]_vars

\* df_filtered(df, key, values)
CallDfFiltered ==
    /\ pc = "call"
    /\ pc' = "df_filtered"
    /\ out' = df_filtered(df, key, values)
    /\ UNCHANGED <<df, key, values>>

\* unstack_timeseries(df)
CallUnstack ==
    /\ pc = "call"
    /\ pc' = "unstack_timeseries"
    /\ out' = unstack_timeseries(df)
    /\ UNCHANGED <<df, key, values>>

\* Aggregation of stacked time series
InitAggTs ==
    /\ df \in Tables(header_timeseries, TsRows)
    /\ key = "region"
    /\ values = <<>>
    /\ pc = "call"
    /\ out = NoResult

SpecAggTs == InitAggTs /\ [][CallDfAgg]_vars

MaxValues == 2

\* the rows of the filtered tables differ in scenario, region and var_value
FilterRows ==
    {ScalarRow(s, <<r, car_gas, "pp">>, vn_capacity, v) :
        s \in Scenarios, r \in {"BB", "BE"}, v \in {1, 2}}

\* Filtering of scalar tables by lists of values, some of them in no row
InitFilter ==
    /\ df \in Tables(header_scalars, FilterRows)
    /\ key \in {"region", "scenario", "var_value"}
    /\ values \in UNION {[1..n -> {"BB", "BE", "s1"}] : n \in 0..MaxValues}
    /\ pc = "call"
    /\ out = NoResult

SpecFilter == InitFilter /\ [][CallDfFiltered]_vars

\* Filtering and aggregation of tables of every header by every key
InitSchema ==
    /\ df \in {OneRowTable(h) : h \in Headers}
    /\ key \in Range(header_scalars) \cup Range(header_timeseries) \cup {"foo"}
    /\ values = <<"BB">>
    /\ pc = "call"
    /\ out = NoResult

NextSchema == CallDfFiltered \/ CallDfAgg

SpecSchema == InitSchema /\ [][NextSchema]_vars

\* Unstacking of stacked time series
\* stack_timeseries(unstack_timeseries(df))
CallStackUnstacked ==
    /\ pc = "unstack_timeseries"
    /\ out.status = "ok"
    /\ pc' = "stack_timeseries"
    /\ out' = stack_timeseries(out.table)
    /\ UNCHANGED <<df, key, values>>

\* load_scalars(path), df the DataFrame read from path
CallLoadScalars ==
    /\ pc = "call"
    /\ pc' = "load_scalars"
    /\ out' = load_scalars(df)
    /\ UNCHANGED <<df, key, values>>

InitLoadScalars ==
    /\ df \in ScalarFiles
    /\ key = ""
    /\ values = <<>>
    /\ pc = "call"
    /\ out = NoResult

SpecLoadScalars == InitLoadScalars /\ [][CallLoadScalars]_vars

\* load_timeseries(path), df the DataFrame read from path
CallLoadTimeseries ==
    /\ pc = "call"
    /\ pc' = "load_timeseries"
    /\ out' = load_timeseries(df)
    /\ UNCHANGED <<df, key, values>>

InitLoadTimeseries ==
    /\ df \in TsFiles
    /\ key = ""
    /\ values = <<>>
    /\ pc = "call"
    /\ out = NoResult

SpecLoadTimeseries == InitLoadTimeseries /\ [][CallLoadTimeseries]_vars

\* stack_timeseries working on df itself, not on df.copy(), and setting the
\* inferred frequency on its index
CallStack_InPlace ==
    /\ pc = "call"
    /\ pc' = "stack_timeseries"
    /\ out' = stack_timeseries(df)
    /\ df' = IF out'.status = "ok" /\ df.freq = None
             THEN asfreq(df, infer_freq(df.index)) ELSE df
    /\ UNCHANGED <<key, values>>

\* stack_timeseries(df)
CallStack ==
    /\ pc = "call"
    /\ pc' = "stack_timeseries"
    /\ out' = stack_timeseries(df)
    /\ UNCHANGED <<df, key, values>>

InitStack ==
    /\ df \in WideTables
    /\ key = ""
    /\ values = <<>>
    /\ pc = "call"
    /\ out = NoResult

SpecStack == InitStack /\ [][CallStack]_vars

\* scalar tables, stacked and wide time series tables
InitFrame ==
    /\ df \in Tables(header_scalars,
                     {ScalarRow("s1", <<r, car_gas, "pp">>, vn, 1) :
                         r \in {"BB", "BE"}, vn \in {vn_capacity, vn_foobar_in}})
                \cup Tables(header_timeseries,
                            {TsRow(r, vn_BB_pv, <<Cell(0), Cell(2), Cell("H")>>, x) :
                                r \in {"BB", "BE"}, x \in {<<1, 2, 3>>, <<1, 2>>}})
                \cup WideTables
    /\ key \in {"region", "scenario", "var_value"}
    /\ values \in {<<>>, <<"BB">>, <<"BE", "BB">>}
    /\ pc = "call"
    /\ out = NoResult

\* stack_timeseries is called on the wide tables, the other operations on
\* the scalar and stacked tables
NextFrame ==
    \/ IsWide(df) /\ CallStack
    \/ ~IsWide(df) /\ CallUnstack
    \/ ~IsWide(df) /\ CallDfFiltered
    \/ ~IsWide(df) /\ CallDfAgg

SpecFrame == InitFrame /\ [][NextFrame]_vars

InitRoundTrip ==
    /\ df \in RtTables
    /\ key = ""
    /\ values = <<>>
    /\ pc = "call"
    /\ out = NoResult

NextRoundTrip == CallUnstack \/ CallStackUnstacked

SpecRoundTrip == InitRoundTrip /\ [][NextRoundTrip]_vars

InitUnstack ==
    /\ df \in UnstackTables
    /\ key = ""
    /\ values = <<>>
    /\ pc = "call"
    /\ out = NoResult

SpecUnstack == InitUnstack /\ [][CallUnstack]_vars


--------------------------------------------------------------------------
(* What the claims speak of *)

RECURSIVE SeqSum(_, _)
\* the sum of the numbers l[i], l[i+1], ...
SeqSum(l, i) == IF i > Len(l) THEN 0 ELSE l[i] + SeqSum(l, i + 1)

\* the direction a var_name carries: an underscore-delimited segment
DirIn(var_name) == InList(str_in, Split(var_name))
DirOut(var_name) == InList(str_out, Split(var_name))

\* a value with the sign of its direction
Signed(row) ==
    IF DirIn(row.var_name) THEN row.var_value
    ELSE IF DirOut(row.var_name) THEN 0 - row.var_value
    ELSE 0

Categories == {str_capacity, str_flow, str_costs, str_invest, str_losses}

\* a var_name of none of the five categories
Unrecognized(var_name) == \A c \in Categories : ~StrIn(c, var_name)

\* the rows of df in the group (scenario, key_item) whose var_name is of
\* category cat, as their positions
GroupRows(scenario, key_item, cat) ==
    {i \in 1..Len(df.rows) :
        /\ df.rows[i].scenario = scenario
        /\ df.rows[i][key] = key_item
        /\ StrIn(cat, df.rows[i].var_name)}

\* in minus out over the rows at the positions rs
SignedSum(rs) ==
    SeqSum([i \in 1..Len(df.rows) |->
               IF i \in rs THEN Signed(df.rows[i]) ELSE 0], 1)

\* the plain sum over the rows at the positions rs
PlainSum(rs) ==
    SeqSum([i \in 1..Len(df.rows) |->
               IF i \in rs THEN df.rows[i].var_value ELSE 0], 1)

\* the emitted rows of the group (scenario, key_item) with var_name name
Emitted(scenario, key_item, name) ==
    {j \in 1..Len(out.table.rows) :
        /\ out.table.rows[j].scenario = scenario
        /\ out.table.rows[j][key] = key_item
        /\ out.table.rows[j].var_name = name}

AggDone == pc = "df_agg" /\ DataType(df.cols) = "scalars" /\ key \in AggKeys

--------------------------------------------------------------------------
(* C1: aggregate_by(table, "carrier") on rows of one scenario and one      *)
(* carrier that are flows of one energy carrier returns exactly one row,   *)
(* whose var_value is the sum of the "in" rows minus the sum of the "out"  *)
(* rows, with region = "All" and tech = "All".                             *)

\* all rows are flows of one scenario, one carrier and one energy carrier
OneFlow ==
    /\ Len(df.rows) >= 1
    /\ \A i \in 1..Len(df.rows) :
        /\ df.rows[i].scenario = df.rows[1].scenario
        /\ df.rows[i].carrier = df.rows[1].carrier
        /\ StrIn(str_flow, df.rows[i].var_name)
        /\ Len(Split(df.rows[i].var_name)) >= 3
        /\ Split(df.rows[i].var_name)[3] = Split(df.rows[1].var_name)[3]

C1_FlowInMinusOut ==
    (AggDone /\ key = "carrier" /\ OneFlow) =>
        /\ out.status = "ok"
        /\ Len(out.table.rows) = 1
        /\ out.table.rows[1].var_value = SignedSum(1..Len(df.rows))
        /\ out.table.rows[1].region = "All"
        /\ out.table.rows[1].tech = "All"

--------------------------------------------------------------------------
(* C2: for every group (scenario, key-value) the emitted "costs" value is  *)
(* the sum of the group's cost rows with direction "in" minus the sum of   *)
(* those with direction "out", likewise for "invest"; the emitted "losses" *)
(* and "capacity" values are the plain sums of the group's rows.           *)

EmitsSum(scenario, key_item, cat, signed) ==
    LET rs == GroupRows(scenario, key_item, cat)
    IN  rs # {} =>
            \E j \in Emitted(scenario, key_item, cat) :
                out.table.rows[j].var_value =
                    IF signed THEN SignedSum(rs) ELSE PlainSum(rs)

C2_CostInvestSigned ==
    (AggDone /\ out.status = "ok") =>
        \A i \in 1..Len(df.rows) :
            LET s == df.rows[i].scenario
                k == df.rows[i][key]
            IN  /\ EmitsSum(s, k, str_costs, TRUE)
                /\ EmitsSum(s, k, str_invest, TRUE)
                /\ EmitsSum(s, k, str_losses, FALSE)
                /\ EmitsSum(s, k, str_capacity, FALSE)

--------------------------------------------------------------------------
(* C3: aggregate_by on a scalar table fails with UnknownVariable, naming   *)
(* the var_name, whenever some row's var_name contains none of the five    *)
(* category substrings, wherever the row sits and whatever the other rows  *)
(* are; no aggregated table is returned.                                   *)

HasUnrecognized ==
    \E i \in 1..Len(df.rows) : Unrecognized(df.rows[i].var_name)

C3_UnknownVariableAlways ==
    (AggDone /\ HasUnrecognized) =>
        /\ out.status = "UnknownVariable"
        /\ Unrecognized(out.var_name)
        /\ InList(out.var_name, Column(df, "var_name"))
        /\ out.table = EmptyTable

\* the position of the first appearance of x in l
FirstPos(l, x) ==
    CHOOSE i \in 1..Len(l) : l[i] = x /\ \A m \in 1..(i - 1) : l[m] # x

--------------------------------------------------------------------------
(* C4: scalar aggregation emits exactly one row per (scenario, key-value,  *)
(* result-bucket) that has an input row and none for other combinations;   *)
(* in each emitted row the aggregated dimension holds the key-value, the   *)
(* other two of region, carrier, tech are "All", name is                   *)
(* "Aggregated by {key}", var_unit is "-", and id_scal, reference and      *)
(* comment are unset.                                                      *)

\* the result-bucket of an input row
Bucket(row) ==
    IF StrIn(str_capacity, row.var_name) THEN str_capacity
    ELSE IF StrIn(str_flow, row.var_name)
    THEN IF key = "region"
         THEN str_flow_ \o Split(row.var_name)[3]
         ELSE str_flow_ \o Split(row.var_name)[3] \o str_us \o row.carrier
    ELSE IF StrIn(str_costs, row.var_name) THEN str_costs
    ELSE IF StrIn(str_invest, row.var_name) THEN str_invest
    ELSE str_losses

EmittedShape(row) ==
    /\ row.region = (IF key = "region" THEN row[key] ELSE "All")
    /\ row.carrier = (IF key = "carrier" THEN row[key] ELSE str_All)
    /\ row.tech = (IF key = "tech" THEN row[key] ELSE "All")
    /\ row.name = "Aggregated by " \o key
    /\ row.var_unit = "-"
    /\ row.id_scal = None
    /\ row.reference = None
    /\ row.comment = None

C4_OneRowPerBucket ==
    (AggDone /\ out.status = "ok") =>
        /\ \A i \in 1..Len(df.rows) :
              Cardinality(Emitted(df.rows[i].scenario, df.rows[i][key],
                                  Bucket(df.rows[i]))) = 1
        /\ \A j \in 1..Len(out.table.rows) :
              /\ \E i \in 1..Len(df.rows) :
                    j \in Emitted(df.rows[i].scenario, df.rows[i][key],
                                  Bucket(df.rows[i]))
              /\ EmittedShape(out.table.rows[j])

\* two rows of one bucket give one row, by a key that is not the region
C4_Witness ==
    /\ AggDone
    /\ out.status = "ok"
    /\ key = "tech"
    /\ Len(df.rows) = 2
    /\ Len(out.table.rows) = 1
    /\ df.rows[1].var_name # df.rows[2].var_name

--------------------------------------------------------------------------
(* C5: time series aggregation by region emits exactly one row per         *)
(* distinct region, in order of first appearance, whose series is the      *)
(* element-wise sum of the series of the input rows of that region (all    *)
(* series of equal length), with region = that value,                      *)
(* var_name = "Aggregated by region" and var_unit = "-".                   *)

TsAggDone ==
    pc = "df_agg" /\ DataType(df.cols) = "timeseries" /\ key = "region"

EqualLength ==
    \A i \in 1..Len(df.rows) : Len(df.rows[i].series) = Len(df.rows[1].series)

\* the sum of entry p of the series of the rows of region r
SeriesSum(r, p) ==
    SeqSum([i \in 1..Len(df.rows) |->
               IF df.rows[i].region = r THEN df.rows[i].series[p] ELSE 0], 1)

C5_RegionSeriesSum ==
    (TsAggDone /\ EqualLength) =>
        /\ out.status = "ok"
        /\ Range(Column(out.table, "region")) = Range(Column(df, "region"))
        /\ \A j, k \in 1..Len(out.table.rows) :
              j < k => FirstPos(Column(df, "region"), out.table.rows[j].region)
                         < FirstPos(Column(df, "region"), out.table.rows[k].region)
        /\ \A j \in 1..Len(out.table.rows) :
              LET row == out.table.rows[j]
              IN  /\ Len(row.series) = Len(df.rows[1].series)
                  /\ \A p \in 1..Len(row.series) :
                        row.series[p] = SeriesSum(row.region, p)
                  /\ row.var_name = "Aggregated by region"
                  /\ row.var_unit = "-"

\* two rows of one region, summed into one row
C5_Witness ==
    /\ TsAggDone
    /\ out.status = "ok"
    /\ Len(df.rows) = 2
    /\ df.rows[1].region = df.rows[2].region
    /\ Len(df.rows[1].series) = 2
    /\ Len(df.rows[2].series) = 2
    /\ Len(out.table.rows) = 1

--------------------------------------------------------------------------
(* C6: in time series aggregation the timeindex_start, timeindex_stop and  *)
(* timeindex_resolution of each emitted row are those of the first input   *)
(* row of the emitted row's own group, also when groups differ in them.    *)

C6_TimeFieldsOfGroup ==
    (TsAggDone /\ out.status = "ok") =>
        \A j \in 1..Len(out.table.rows) :
            LET first == df.rows[FirstPos(Column(df, "region"),
                                          out.table.rows[j].region)]
            IN  /\ out.table.rows[j].timeindex_start = first.timeindex_start
                /\ out.table.rows[j].timeindex_stop = first.timeindex_stop
                /\ out.table.rows[j].timeindex_resolution = first.timeindex_resolution

--------------------------------------------------------------------------
(* C7: filter_by with a valid, present key returns exactly the rows whose  *)
(* key column equals some element of values, in their original relative   *)
(* row order, for any list of values; a value that matches no row yields a *)
(* notice, never an error, and contributes no rows.                        *)

FilterDone ==
    /\ pc = "df_filtered"
    /\ DataType(df.cols) # "neither"
    /\ InList(key, filter_options(DataType(df.cols)))
    /\ InList(key, df.cols)

\* the requested values that are in no row
NotFound == SelectSeq(values, LAMBDA v : ~InList(v, Column(df, key)))

C7_RowsInTableOrder ==
    FilterDone =>
        /\ out.status = "ok"
        /\ out.table.rows = SelectSeq(df.rows, LAMBDA row : InList(row[key], values))
        /\ out.notices = NotFound

RECURSIVE ByValue(_)
\* the rows of values[vi], then those of values[vi + 1], ...
ByValue(vi) ==
    IF vi > Len(values) THEN <<>>
    ELSE SelectSeq(df.rows, LAMBDA row : row[key] = values[vi]) \o ByValue(vi + 1)

\* C7 as amended: the result holds, for each element of values in list
\* order, the rows whose key column equals it, in their original relative
\* order; rows of one requested value stay together and a value requested
\* twice gives its rows twice.
C7_RowsByValueOrder ==
    FilterDone =>
        /\ out.status = "ok"
        /\ out.table.cols = df.cols
        /\ out.table.rows = ByValue(1)
        /\ out.notices = NotFound

\* two values, the rows of the second before those of the first in the table
C7_Witness ==
    /\ FilterDone
    /\ out.status = "ok"
    /\ Len(values) = 2
    /\ Len(df.rows) = 2
    /\ df.rows[1][key] = values[2]
    /\ df.rows[2][key] = values[1]
    /\ values[1] # values[2]
    /\ out.table.rows = <<df.rows[2], df.rows[1]>>

--------------------------------------------------------------------------
(* C8: filter_by and aggregate_by classify the table by the set of its     *)
(* columns minus the optional columns, independent of column order; only   *)
(* a table matching neither required set fails with UnrecognizedSchema.    *)

RequiredSet(cols) ==
    Range(cols) \ (Range(optional_header_scalars)
                     \cup Range(optional_header_timeseries))

SetType(cols) ==
    IF RequiredSet(cols) = Range(required_header_scalars) THEN "scalars"
    ELSE IF RequiredSet(cols) = Range(required_header_timeseries) THEN "timeseries"
    ELSE "neither"

C8_ClassifiedBySet ==
    pc \in {"df_filtered", "df_agg"} =>
        /\ (out.status = "UnrecognizedSchema") <=> (SetType(df.cols) = "neither")
        /\ DataType(df.cols) # "neither" => DataType(df.cols) = SetType(df.cols)

--------------------------------------------------------------------------
(* C9: for a recognized table filter_by fails with InvalidFilterKey        *)
(* exactly when key is outside the allowed filter keys, aggregate_by with  *)
(* InvalidAggregationKey exactly when key is outside the allowed           *)
(* aggregation keys; the key check precedes the missing-column check and   *)
(* no table is produced on failure.                                        *)

AllowedFilterKeys ==
    IF DataType(df.cols) = "scalars"
    THEN {"scenario", "region", "carrier", "tech", "type", "var_name"}
    ELSE {"region", "var_name"}

AllowedAggKeys ==
    IF DataType(df.cols) = "scalars" THEN {"region", "carrier", "tech"}
    ELSE {"region"}

C9_KeyChecked ==
    DataType(df.cols) # "neither" =>
        /\ pc = "df_filtered" =>
              (out.status = "InvalidFilterKey") <=> (key \notin AllowedFilterKeys)
        /\ pc = "df_agg" =>
              (out.status = "InvalidAggregationKey") <=> (key \notin AllowedAggKeys)
        /\ out.status # "ok" => out.table = EmptyTable

\* a key that is neither allowed nor a column fails the key check
C9_Witness ==
    /\ pc = "df_agg"
    /\ DataType(df.cols) = "scalars"
    /\ ~InList(key, df.cols)
    /\ out.status = "InvalidAggregationKey"

--------------------------------------------------------------------------
(* C10: unstack fails with InconsistentTimeIndex, naming the field,        *)
(* whenever two rows differ in a time field, and with MissingTimeField     *)
(* whenever a time field is missing (the column is lacking, or its value   *)
(* is missing in some or all rows); it builds a wide table only when all   *)
(* three are present and identical across rows.                            *)

Present(cell) == cell # NoneCell /\ cell # NaNCell

FieldMissing(f) ==
    ~InList(f, df.cols) \/ \E i \in 1..Len(df.rows) : ~Present(df.rows[i][f])

\* two rows hold different values of f
FieldDiffers(f) ==
    /\ InList(f, df.cols)
    /\ \E i, j \in 1..Len(df.rows) :
          /\ Present(df.rows[i][f])
          /\ Present(df.rows[j][f])
          /\ df.rows[i][f] # df.rows[j][f]

AnyMissing == \E f \in TimeFields : FieldMissing(f)
AnyDiffers == \E f \in TimeFields : FieldDiffers(f)

\* Where fields differ and fields are missing at once, either failure is
\* taken to meet the claim.
C10_TimeFieldErrors ==
    (pc = "unstack_timeseries" /\ Len(df.rows) >= 1) =>
        /\ (AnyDiffers /\ ~AnyMissing) =>
              /\ out.status = "InconsistentTimeIndex"
              /\ \E f \in TimeFields : FieldDiffers(f) /\ out.field = FieldName(f)
        /\ (AnyMissing /\ ~AnyDiffers) => out.status = "MissingTimeField"
        /\ (AnyMissing /\ AnyDiffers) =>
              out.status \in {"InconsistentTimeIndex", "MissingTimeField"}
        /\ out.status = "ok" => (~AnyMissing /\ ~AnyDiffers)

--------------------------------------------------------------------------
(* C11: unstack fails with SeriesLengthMismatch, and returns no wide       *)
(* table, whenever the length of some row's series differs from the number *)
(* of timestamps of the index generated from the shared start, stop and    *)
(* resolution, also when the series of different rows differ in length.    *)
(* The failure is the ValueError of building the array and the table,      *)
(* status "ShapeError".                                                    *)

\* the number of timestamps start, start + step, ... that are not after stop
TimestampCount ==
    LET start == df.rows[1].timeindex_start.v
        stop == df.rows[1].timeindex_stop.v
        step == FreqHours(df.rows[1].timeindex_resolution.v)
    IN  Cardinality({k \in 0..stop : start + k * step <= stop})

Unstacked == pc = "unstack_timeseries" /\ Len(df.rows) >= 1

--------------------------------------------------------------------------
(* C12: for every stacked table S with consistent time fields and series   *)
(* whose length matches the time range, stack(unstack(S)) has the same     *)
(* number of rows as S, the same var_name values in the same order, the    *)
(* same series values position by position and the same timeindex_start,   *)
(* timeindex_stop and timeindex_resolution.                                *)

\* stack has been applied to the unstacked S
RoundTripDone == pc = "stack_timeseries" /\ Len(df.rows) >= 1

\* row j of the result is row j of S; a series entry x reads <<x>>
SameRow(j) ==
    LET row == out.table.rows[j]
        orig == df.rows[j]
    IN  /\ row.var_name = orig.var_name
        /\ Len(row.series) = Len(orig.series)
        /\ \A p \in 1..Len(orig.series) : row.series[p] = <<orig.series[p]>>
        /\ row.timeindex_start = orig.timeindex_start
        /\ row.timeindex_stop = orig.timeindex_stop
        /\ row.timeindex_resolution = orig.timeindex_resolution

C12_RoundTrip ==
    RoundTripDone =>
        /\ out.status = "ok"
        /\ Len(out.table.rows) = Len(df.rows)
        /\ \A j \in 1..Len(df.rows) : SameRow(j)

--------------------------------------------------------------------------
(* C13: stack of a wide table fails with NotTimeIndexed when the row index *)
(* is not a timestamp index and with NoFixedFrequency when no single       *)
(* frequency can be inferred; otherwise it emits exactly one stacked row   *)
(* per column, in column order, with var_name the column name,             *)
(* timeindex_start / timeindex_stop the first / last index timestamp,      *)
(* timeindex_resolution the frequency label and series the column's        *)
(* values in index order.                                                  *)

Stacked == pc = "stack_timeseries"

\* the steps of the index are all the same
EqualSteps ==
    \A i \in 2..Len(df.index) : df.index[i] - df.index[i - 1] = df.index[2] - df.index[1]

\* the label the index carries, else the alias of its steps
FrequencyLabel ==
    IF df.freq # None THEN df.freq ELSE FreqAlias(df.index[2] - df.index[1])

\* row j of the result is column j of df; a series entry x reads <<x>>
StackedColumn(j) ==
    LET row == out.table.rows[j]
    IN  /\ row.var_name = df.cols[j]
        /\ row.timeindex_start = Cell(df.index[1])
        /\ row.timeindex_stop = Cell(df.index[Len(df.index)])
        /\ row.timeindex_resolution = Cell(FrequencyLabel)
        /\ Len(row.series) = Len(df.index)
        /\ \A p \in 1..Len(df.index) : row.series[p] = <<df.rows[p][j]>>

\* With fewer than three timestamps pandas infers no frequency and raises
\* its own ValueError; this failure is taken to meet the claim.
C13_OneRowPerColumn ==
    Stacked =>
        /\ df.kind # "DatetimeIndex" => out.status = "NotTimeIndexed"
        /\ (df.kind = "DatetimeIndex" /\ Len(df.index) < 3) =>
               out.status \in {"NoFixedFrequency", "ValueError"}
        /\ (df.kind = "DatetimeIndex" /\ Len(df.index) >= 3 /\ ~EqualSteps) =>
               out.status = "NoFixedFrequency"
        /\ (df.kind = "DatetimeIndex" /\ Len(df.index) >= 3 /\ EqualSteps) =>
               /\ out.status = "ok"
               /\ Len(out.table.rows) = Len(df.cols)
               /\ \A j \in 1..Len(df.cols) : StackedColumn(j)

--------------------------------------------------------------------------
(* C16: loading a scalar table fails with MissingRequiredColumns listing   *)
(* every absent required column when any is absent; otherwise it returns a *)
(* table with exactly the canonical scalar header in canonical order,      *)
(* whatever the input column order, where a missing id_scal is synthesized *)
(* as 0..n-1 in row order, every other missing optional column is added    *)
(* with all values missing, and the values of the header's columns present *)
(* in the input are unchanged.                                             *)

ScalarsLoaded == pc = "load_scalars"

AbsentRequired ==
    {"scenario", "name", "var_name", "carrier", "region", "tech", "type",
     "var_value"} \ Range(df.cols)

\* cell c of row i of the result
LoadedCell(i, c) ==
    IF InList(c, df.cols) THEN out.table.rows[i][c] = df.rows[i][c]
    ELSE IF c = "id_scal" THEN out.table.rows[i][c] = i - 1
    ELSE out.table.rows[i][c] = NaN

C16_LoadScalars ==
    ScalarsLoaded =>
        /\ AbsentRequired # {} =>
               /\ out.status = "MissingRequiredColumns"
               /\ out.field = AbsentRequired
               /\ out.table = EmptyTable
        /\ AbsentRequired = {} =>
               /\ out.status = "ok"
               /\ out.table.cols = header_scalars
               /\ Len(out.table.rows) = Len(df.rows)
               /\ \A i \in 1..Len(df.rows) :
                     /\ DOMAIN out.table.rows[i] = Range(header_scalars)
                     /\ \A c \in Range(header_scalars) : LoadedCell(i, c)

\* two rows, columns in another order, id_scal and comment lacking
C16_Witness ==
    /\ ScalarsLoaded
    /\ out.status = "ok"
    /\ Len(df.rows) = 2
    /\ ~InList("id_scal", df.cols)
    /\ ~InList("comment", df.cols)
    /\ df.cols[1] = "reference"
    /\ out.table.rows[2].id_scal = 1

--------------------------------------------------------------------------
(* C14: loading a pre-stacked time series input that has all required      *)
(* columns (region possibly absent), in any column order and with any      *)
(* subset of the optional columns, succeeds and returns a table whose      *)
(* columns are exactly the canonical time series header in canonical       *)
(* order, each absent optional column inserted with all values missing     *)
(* (id_ts as sequential integers).                                         *)

TimeseriesLoaded == pc = "load_timeseries"

\* a stacked file of at least one row with the required columns and only
\* columns of the header
PreStacked ==
    /\ ~IsWide(df)
    /\ Len(df.rows) >= 1
    /\ {"var_name", "timeindex_start", "timeindex_stop", "timeindex_resolution",
        "series"} \subseteq Range(df.cols)
    /\ Range(df.cols) \subseteq Range(header_timeseries)

\* no row lacks its region: the column is there, or every var_name names one
RegionKnown ==
    \/ InList("region", df.cols)
    \/ \A i \in 1..Len(df.rows) :
          StrIn(str_BE, df.rows[i].var_name) \/ StrIn(str_BB, df.rows[i].var_name)

C14_CanonicalHeader ==
    (TimeseriesLoaded /\ PreStacked /\ RegionKnown) =>
        /\ out.status = "ok"
        /\ out.table.cols = header_timeseries
        /\ Len(out.table.rows) = Len(df.rows)
        /\ \A i \in 1..Len(df.rows) :
              /\ DOMAIN out.table.rows[i] = Range(header_timeseries)
              /\ ~InList("id_ts", df.cols) => out.table.rows[i].id_ts = i - 1
              /\ \A c \in {"var_unit", "source", "comment"} :
                    ~InList(c, df.cols) => out.table.rows[i][c] = NaN

--------------------------------------------------------------------------
(* C15: when the region column is absent on time series load, each row's   *)
(* region is derived from its var_name: "BE_BB" if it contains both "BE"   *)
(* and "BB", "BE" if only "BE", "BB" if only "BB"; if some row's var_name  *)
(* contains neither, the load fails with MissingRegion and returns no      *)
(* table.                                                                  *)

\* the region the claim derives for row i
DerivedRegion(i) ==
    LET be == StrIn(str_BE, df.rows[i].var_name)
        bb == StrIn(str_BB, df.rows[i].var_name)
    IN  IF be /\ bb THEN "BE_BB" ELSE IF be THEN "BE" ELSE "BB"

C15_RegionFromVarName ==
    (TimeseriesLoaded /\ PreStacked /\ ~InList("region", df.cols)) =>
        IF RegionKnown
        THEN /\ out.status = "ok"
             /\ \A i \in 1..Len(df.rows) : out.table.rows[i].region = DerivedRegion(i)
        ELSE /\ out.status = "MissingRegion"
             /\ out.table = EmptyTable

--------------------------------------------------------------------------
(* C18: in scalar aggregation no input row is silently left out: for every *)
(* input row, either its var_value is added to or subtracted from exactly  *)
(* one emitted row or the aggregation fails; a "flow", "costs" or "invest" *)
(* row whose var_name carries neither "in" nor "out" gives no successful   *)
(* result that lacks its value.                                            *)

\* the input rows of the bucket of the emitted row j, as their positions
Contributing(j) ==
    {i \in 1..Len(df.rows) :
        /\ df.rows[i].scenario = out.table.rows[j].scenario
        /\ df.rows[i][key] = out.table.rows[j][key]
        /\ Bucket(df.rows[i]) = out.table.rows[j].var_name}

RECURSIVE SignedSums(_, _)
\* the sums of the values of the rows rs from position i on, each value
\* added or subtracted
SignedSums(rs, i) ==
    IF i > Len(df.rows) THEN {0}
    ELSE IF i \in rs
    THEN {x + e : x \in SignedSums(rs, i + 1),
                  e \in {df.rows[i].var_value, 0 - df.rows[i].var_value}}
    ELSE SignedSums(rs, i + 1)

C18_NoRowLeftOut ==
    (AggDone /\ out.status = "ok") =>
        /\ \A i \in 1..Len(df.rows) :
              Cardinality({j \in 1..Len(out.table.rows) : i \in Contributing(j)}) = 1
        /\ \A j \in 1..Len(out.table.rows) :
              out.table.rows[j].var_value \in SignedSums(Contributing(j), 1)

--------------------------------------------------------------------------
(* C17: stack, unstack, filter_by and aggregate_by never change their      *)
(* input table: after any call, whether it returns or fails, the input has *)
(* the columns, rows, row order and cell values it had before the call.    *)

==========================================================================
